---- MODULE Spec2Model ----
(***************************************************************************)
(* Model of the loop-detection engine of loop_counter_streamlit.py:        *)
(* run_full_process sorts the filtered stop reports and hands them to      *)
(* get_loop_events, which partitions them by (Vehicle, Block, Route),      *)
(* scans every partition with a per-trip state map, applies trip-flip      *)
(* recovery to the trips still waiting, numbers every event per vehicle    *)
(* and service day, and finally sorts the event table.                     *)
(*                                                                         *)
(* Timestamps are whole hours since midnight of day 0 (ts.hour is the only *)
(* part of a timestamp the code inspects); positions are 1-based.          *)
(* loop_mileage is in thousandths of a mile, Total_Miles in hundredths.    *)
(* outcome is the set of messages the running script has shown.            *)
(***************************************************************************)
EXTENDS Integers, Sequences, FiniteSets

VARIABLES api_data, start_stop, end_stop, pc, df_sorted, groups, g,
          group_sorted, i, trip_loops, k, loop_events, loop_events_df,
          loop_mileage, df_filtered, outcome, final_df, session, fetch_args

vars == <<api_data, start_stop, end_stop, pc, df_sorted, groups, g,
          group_sorted, i, trip_loops, k, loop_events, loop_events_df,
          loop_mileage, df_filtered, outcome, final_df, session, fetch_args>>

(***************************************************************************)
(* Bounds of the explored inputs.                                          *)
(***************************************************************************)
MaxRecords == 4
MaxDayRecords == 4
MaxDupRecords == 4

(***************************************************************************)
(* Program constants.                                                      *)
(***************************************************************************)
ServiceDayStartHour == 6
NoneVal == -1
DefaultLoopMileage == 4300

(***************************************************************************)
(* Sorting as pandas does it: DataFrame.sort_values on several columns is  *)
(* a stable lexicographic sort; keys is the sequence of key tuples of the  *)
(* rows of s.                                                              *)
(***************************************************************************)
LexLess(a, b) ==
    \E n \in DOMAIN a : a[n] < b[n] /\ \A m \in 1..(n - 1) : a[m] = b[m]

SortRank(keys, p) ==
    Cardinality({q \in DOMAIN keys :
                    LexLess(keys[q], keys[p]) \/ (keys[q] = keys[p] /\ q < p)})

StableSort(s, keys) ==
    [r \in 1..Len(s) |-> s[CHOOSE p \in 1..Len(s) : SortRank(keys, p) = r - 1]]

\* df.sort_values(['Block', 'Timestamp'])
SortByBlockTimestamp(df) ==
    StableSort(df, [n \in DOMAIN df |-> <<df[n].Block, df[n].Timestamp>>])

\* group.sort_values('Timestamp'): a sort on one column uses the default
\* kind, quicksort, which is not stable, so rows of equal Timestamp come out
\* in any order; the set of the orders the sort can return
RECURSIVE SortByTimestamp(_)
SortByTimestamp(df) ==
    IF df = <<>> THEN {<<>>}
    ELSE LET earliest == {a \in DOMAIN df :
                             \A b \in DOMAIN df : df[a].Timestamp <= df[b].Timestamp}
             Others(a) == [n \in 1..(Len(df) - 1) |->
                              IF n < a THEN df[n] ELSE df[n + 1]]
         IN  UNION {{<<df[a]>> \o rest : rest \in SortByTimestamp(Others(a))} :
                       a \in earliest}

GroupKey(row) == <<row.Vehicle, row.Block, row.Route>>

\* the keys of df.groupby(['Vehicle', 'Block', 'Route']), in ascending order
GroupKeys(df) ==
    LET ks == {GroupKey(df[n]) : n \in DOMAIN df}
    IN  [r \in 1..Cardinality(ks) |->
            CHOOSE x \in ks : Cardinality({y \in ks : LexLess(y, x)}) = r - 1]

\* a variant that takes all the rows of the vehicle
GroupRowsByVehicle(df, key) ==
    LET InGroup(row) == row.Vehicle = key[1]
    IN  SortByTimestamp(SelectSeq(df, InGroup))

\* the rows of one group, in each order that line 317 can give them
GroupRows(df, key) ==
    LET InGroup(row) == GroupKey(row) = key
    IN  SortByTimestamp(SelectSeq(df, InGroup))

(***************************************************************************)
(* Timestamps, their text form and the service day.                        *)
(***************************************************************************)
\* completion_timestamp.strftime('%Y-%m-%d %H:%M:%S')
Strftime(ts) == [date |-> ts \div 24, hour |-> ts % 24]

\* pd.to_datetime(text)
ToDatetime(text) == text.date * 24 + text.hour

\* a variant that takes the calendar date, without the 06:00 boundary
get_service_day_calendar(ts) == ts \div 24

get_service_day(ts) ==
    IF ts % 24 >= ServiceDayStartHour THEN ts \div 24 ELSE (ts \div 24) - 1

(***************************************************************************)
(* The per-trip state map: a sequence of entries in insertion order, as a  *)
(* Python dict iterates.                                                   *)
(***************************************************************************)
TripSeen(tl, trip) == \E n \in DOMAIN tl : tl[n].trip = trip

TripPos(tl, trip) == CHOOSE n \in DOMAIN tl : tl[n].trip = trip

InitTrip(tl, trip) ==
    IF TripSeen(tl, trip) THEN tl
    ELSE Append(tl, [trip |-> trip, waiting_for_end |-> FALSE,
                     start_time |-> NoneVal, start_index |-> NoneVal])

(***************************************************************************)
(* round(loop_count * loop_mileage, 2).  loop_mileage is the double next   *)
(* to m thousandths, M1 / 2^e with 2^52 <= M1 <= 2^53; the product is the  *)
(* double next to n * M1 / 2^e; round gives the hundredth next to that     *)
(* double, the even one if the double lies exactly halfway.  The doubles    *)
(* are too wide to be written out: the operators below compute the errors  *)
(* of the two roundings from remainders.                                   *)
(***************************************************************************)
\* floor(log2(a / b)) for positive a and b
RECURSIVE Log2Floor(_, _)
Log2Floor(a, b) ==
    IF a >= 2 * b THEN 1 + Log2Floor(a, 2 * b)
    ELSE IF a < b THEN Log2Floor(2 * a, b) - 1
    ELSE 0

\* a / b is a power of two
RECURSIVE IsPowerOfTwo(_, _)
IsPowerOfTwo(a, b) ==
    IF a = b THEN TRUE
    ELSE IF a > b THEN 2 * b <= a /\ IsPowerOfTwo(a, 2 * b)
    ELSE 2 * a <= b /\ IsPowerOfTwo(2 * a, b)

RECURSIVE Pow2(_)
Pow2(n) == IF n = 0 THEN 1 ELSE 2 * Pow2(n - 1)

\* (m * 2^e) % modulus
RECURSIVE ShiftMod(_, _, _)
ShiftMod(m, e, modulus) ==
    IF e = 0 THEN m % modulus ELSE (2 * ShiftMod(m, e - 1, modulus)) % modulus

\* what rounding to the nearest multiple of modulus, halves to the even
\* multiple, adds to a number that leaves remainder r; odd tells that the
\* multiple below is an odd one
HalfEvenError(r, odd, modulus) ==
    IF 2 * r < modulus THEN 0 - r
    ELSE IF 2 * r > modulus THEN modulus - r
    ELSE IF odd THEN modulus - r ELSE 0 - r

\* the sign of this number is the sign of float(n) * float(m / 1000) minus
\* n * m / 1000
ProductError(n, m) ==
    LET j    == Log2Floor(m, 1000)
        e    == 52 - j
        r1   == HalfEvenError(ShiftMod(m, e, 1000),
                              ShiftMod(m, e, 2000) >= 1000, 1000)
        u    == Log2Floor(n * m, 1000) - j
        t    == IF IsPowerOfTwo(n * m, 1000) /\ r1 < 0 THEN u - 1 ELSE u
        wide == 1000 * Pow2(t + 1)
        low  == ((ShiftMod(m, e, wide) + r1) % wide) \div 1000
        x    == (n * low) % Pow2(t + 1)
        r2   == HalfEvenError(x % Pow2(t), x >= Pow2(t), Pow2(t))
    IN  n * r1 + 1000 * r2

\* a variant that cuts the thousandths off
Round2Truncate(n, m) == (n * m) \div 10

\* round(n * loop_mileage, 2) in hundredths, for a loop_mileage of m
\* thousandths
Round2(n, m) ==
    LET q == (n * m) \div 10
    IN  IF (n * m) % 10 < 5 THEN q
        ELSE IF (n * m) % 10 > 5 THEN q + 1
        ELSE IF ProductError(n, m) < 0 THEN q
        ELSE IF ProductError(n, m) > 0 THEN q + 1
        ELSE IF q % 2 = 0 THEN q ELSE q + 1

\* len([event for event in loop_events if same vehicle and same service day])
daily_loops(events, vehicle, service_day) ==
    Cardinality({n \in DOMAIN events :
        /\ events[n].Vehicle = vehicle
        /\ get_service_day(ToDatetime(events[n].Loop_Completed_At)) = service_day})

\* a variant that numbers the events of each block separately
MakeEventPerBlock(events, key, trip, end_trip, flip, ts, ss, es, sidx, eidx) ==
    LET InBlock(e) == e.Block = key[2]
    IN  [Vehicle |-> key[1], Block |-> key[2], Route |-> key[3],
         Trip |-> trip, Start_Stop |-> ss, End_Stop |-> es,
         Loop_Completed_At |-> Strftime(ts),
         Loop_Count |-> daily_loops(SelectSeq(events, InBlock), key[1],
                                    get_service_day(ts)) + 1,
         Total_Miles |-> Round2(daily_loops(SelectSeq(events, InBlock), key[1],
                                            get_service_day(ts)) + 1, loop_mileage),
         Trip_Flip |-> flip, End_Trip |-> end_trip,
         Start_Index |-> sidx, End_Index |-> eidx]

MakeEvent(events, key, trip, end_trip, flip, ts, ss, es, sidx, eidx) ==
    [Vehicle |-> key[1], Block |-> key[2], Route |-> key[3],
     Trip |-> trip, Start_Stop |-> ss, End_Stop |-> es,
     Loop_Completed_At |-> Strftime(ts),
     Loop_Count |-> daily_loops(events, key[1], get_service_day(ts)) + 1,
     Total_Miles |->
         Round2(daily_loops(events, key[1], get_service_day(ts)) + 1, loop_mileage),
     Trip_Flip |-> flip, End_Trip |-> end_trip,
     Start_Index |-> sidx, End_Index |-> eidx]

(***************************************************************************)
(* One iteration of the partition scan (the body of `for i in range`).     *)
(* S is [trip_loops, loop_events].                                         *)
(***************************************************************************)
\* a variant that arms a trip at its first start-stop visit only
ScanRowNoRearm(S, group, n, key, ss, es) ==
    LET row == group[n]
        tl  == InitTrip(S.trip_loops, row.Trip)
        p   == TripPos(tl, row.Trip)
    IN  IF row.Stop_Name = ss /\ tl[p].start_index = NoneVal
        THEN [trip_loops  |-> [tl EXCEPT ![p].waiting_for_end = TRUE,
                                         ![p].start_time = row.Timestamp,
                                         ![p].start_index = n],
              loop_events |-> S.loop_events]
        ELSE IF row.Stop_Name = es /\ tl[p].waiting_for_end
        THEN [trip_loops  |-> [tl EXCEPT ![p].waiting_for_end = FALSE],
              loop_events |-> Append(S.loop_events,
                                  MakeEvent(S.loop_events, key, row.Trip, row.Trip,
                                            FALSE, row.Timestamp, ss, es,
                                            tl[p].start_index, n))]
        ELSE [trip_loops |-> tl, loop_events |-> S.loop_events]

\* a variant that leaves the trip waiting after its loop is closed
ScanRowNoReset(S, group, n, key, ss, es) ==
    LET row == group[n]
        tl  == InitTrip(S.trip_loops, row.Trip)
        p   == TripPos(tl, row.Trip)
    IN  IF row.Stop_Name = ss
        THEN [trip_loops  |-> [tl EXCEPT ![p].waiting_for_end = TRUE,
                                         ![p].start_time = row.Timestamp,
                                         ![p].start_index = n],
              loop_events |-> S.loop_events]
        ELSE IF row.Stop_Name = es /\ tl[p].waiting_for_end
        THEN [trip_loops  |-> tl,
              loop_events |-> Append(S.loop_events,
                                  MakeEvent(S.loop_events, key, row.Trip, row.Trip,
                                            FALSE, row.Timestamp, ss, es,
                                            tl[p].start_index, n))]
        ELSE [trip_loops |-> tl, loop_events |-> S.loop_events]

ScanRow(S, group, n, key, ss, es) ==
    LET row == group[n]
        tl  == InitTrip(S.trip_loops, row.Trip)
        p   == TripPos(tl, row.Trip)
    IN  IF row.Stop_Name = ss
        THEN [trip_loops  |-> [tl EXCEPT ![p].waiting_for_end = TRUE,
                                         ![p].start_time = row.Timestamp,
                                         ![p].start_index = n],
              loop_events |-> S.loop_events]
        ELSE IF row.Stop_Name = es /\ tl[p].waiting_for_end
        THEN [trip_loops  |-> [tl EXCEPT ![p].waiting_for_end = FALSE],
              loop_events |-> Append(S.loop_events,
                                  MakeEvent(S.loop_events, key, row.Trip, row.Trip,
                                            FALSE, row.Timestamp, ss, es,
                                            tl[p].start_index, n))]
        ELSE [trip_loops |-> tl, loop_events |-> S.loop_events]

(***************************************************************************)
(* One iteration of the trip-flip recovery loop over trip_loops.items().   *)
(***************************************************************************)
\* a variant that searches the whole partition
NextTripStartFromBeginning(group, start_idx, trip_id) ==
    LET js == {j \in 1..Len(group) : group[j].Trip # trip_id}
    IN  IF js = {} THEN NoneVal
        ELSE CHOOSE j \in js : \A j2 \in js : j <= j2

\* first j after start_idx whose trip differs from trip_id, or NoneVal
NextTripStart(group, start_idx, trip_id) ==
    LET js == {j \in (start_idx + 1)..Len(group) : group[j].Trip # trip_id}
    IN  IF js = {} THEN NoneVal
        ELSE CHOOSE j \in js : \A j2 \in js : j <= j2

\* a variant that looks for the first end-stop visit of another trip
FlipTripAnyLater(S, group, p, key, ss, es) ==
    LET st == S.trip_loops[p]
        js == {j \in (st.start_index + 1)..Len(group) :
                  group[j].Trip # st.trip /\ group[j].Stop_Name = es}
        nx == CHOOSE j \in js : \A j2 \in js : j <= j2
    IN  IF st.waiting_for_end /\ js # {}
        THEN [trip_loops  |-> [S.trip_loops EXCEPT ![p].waiting_for_end = FALSE],
              loop_events |-> Append(S.loop_events,
                                  MakeEvent(S.loop_events, key, st.trip, group[nx].Trip,
                                            TRUE, group[nx].Timestamp, ss, es,
                                            st.start_index, nx))]
        ELSE S

\* a variant that takes the next trip's first record whatever its stop
FlipTripNoStopCheck(S, group, p, key, ss, es) ==
    LET st == S.trip_loops[p]
        nx == NextTripStart(group, st.start_index, st.trip)
    IN  IF st.waiting_for_end /\ nx # NoneVal
        THEN [trip_loops  |-> [S.trip_loops EXCEPT ![p].waiting_for_end = FALSE],
              loop_events |-> Append(S.loop_events,
                                  MakeEvent(S.loop_events, key, st.trip, group[nx].Trip,
                                            TRUE, group[nx].Timestamp, ss, es,
                                            st.start_index, nx))]
        ELSE S

\* a variant that records the waiting trip as the end trip
FlipTripKeepsTrip(S, group, p, key, ss, es) ==
    LET st == S.trip_loops[p]
        nx == NextTripStart(group, st.start_index, st.trip)
    IN  IF st.waiting_for_end /\ nx # NoneVal /\ group[nx].Stop_Name = es
        THEN [trip_loops  |-> [S.trip_loops EXCEPT ![p].waiting_for_end = FALSE],
              loop_events |-> Append(S.loop_events,
                                  MakeEvent(S.loop_events, key, st.trip, st.trip,
                                            TRUE, group[nx].Timestamp, ss, es,
                                            st.start_index, nx))]
        ELSE S

FlipTrip(S, group, p, key, ss, es) ==
    LET st == S.trip_loops[p]
        nx == NextTripStart(group, st.start_index, st.trip)
    IN  IF st.waiting_for_end /\ nx # NoneVal /\ group[nx].Stop_Name = es
        THEN [trip_loops  |-> [S.trip_loops EXCEPT ![p].waiting_for_end = FALSE],
              loop_events |-> Append(S.loop_events,
                                  MakeEvent(S.loop_events, key, st.trip, group[nx].Trip,
                                            TRUE, group[nx].Timestamp, ss, es,
                                            st.start_index, nx))]
        ELSE S

(***************************************************************************)
(* The final table: sorted by Block, then completion time; the positions   *)
(* of the arming and closing records are not columns of the table.         *)
(***************************************************************************)
TableRow(e) ==
    [Vehicle |-> e.Vehicle, Block |-> e.Block, Route |-> e.Route,
     Trip |-> e.Trip, Start_Stop |-> e.Start_Stop, End_Stop |-> e.End_Stop,
     Loop_Completed_At |-> e.Loop_Completed_At, Loop_Count |-> e.Loop_Count,
     Total_Miles |-> e.Total_Miles,
     Trip_Flip |-> e.Trip_Flip, End_Trip |-> e.End_Trip]

SortEvents(events) ==
    StableSort(events,
        [n \in DOMAIN events |->
            <<events[n].Block, ToDatetime(events[n].Loop_Completed_At)>>])

\* a variant that leaves the events in the order of their emission
CollateUnsorted(events) == [n \in DOMAIN events |-> TableRow(events[n])]

Collate(events) ==
    LET sorted == SortEvents(events)
    IN  [n \in DOMAIN sorted |-> TableRow(sorted[n])]

(***************************************************************************)
(* get_loop_events as a function of its arguments: the set of the tables   *)
(* it can return, one for every choice of the order of tied rows.          *)
(***************************************************************************)
RECURSIVE ScanFrom(_, _, _, _, _, _)
ScanFrom(S, group, n, key, ss, es) ==
    IF n > Len(group) THEN S
    ELSE ScanFrom(ScanRow(S, group, n, key, ss, es), group, n + 1, key, ss, es)

RECURSIVE FlipFrom(_, _, _, _, _, _)
FlipFrom(S, group, p, key, ss, es) ==
    IF p > Len(S.trip_loops) THEN S
    ELSE FlipFrom(FlipTrip(S, group, p, key, ss, es), group, p + 1, key, ss, es)

ProcessGroup(events, df, key, ss, es) ==
    {FlipFrom(ScanFrom([trip_loops |-> <<>>, loop_events |-> events],
                       group, 1, key, ss, es),
              group, 1, key, ss, es).loop_events : group \in GroupRows(df, key)}

RECURSIVE GroupsFrom(_, _, _, _, _, _)
GroupsFrom(events, df, keys, n, ss, es) ==
    IF n > Len(keys) THEN {events}
    ELSE UNION {GroupsFrom(after, df, keys, n + 1, ss, es) :
                   after \in ProcessGroup(events, df, keys[n], ss, es)}

RawLoopEvents(df, ss, es) ==
    LET sorted == SortByBlockTimestamp(df)
    IN  GroupsFrom(<<>>, sorted, GroupKeys(sorted), 1, ss, es)

get_loop_events(df, ss, es) ==
    {Collate(events) : events \in RawLoopEvents(df, ss, es)}

(***************************************************************************)
(* save_loop_events: the table followed by one summary row.                *)
(***************************************************************************)
\* f'{trip_flip_count} trip flips'
TripFlipsText(n) == <<n, "trip flips">>

RECURSIVE SumMiles(_, _)
SumMiles(tbl, n) == IF n = 0 THEN 0 ELSE tbl[n].Total_Miles + SumMiles(tbl, n - 1)

\* a variant that adds up the Total_Miles column
TotalRowSummed(loop_events_tbl, mileage) ==
    LET total_loops == Len(loop_events_tbl)
        trip_flip_count ==
            Cardinality({n \in DOMAIN loop_events_tbl : loop_events_tbl[n].Trip_Flip})
    IN  [Vehicle |-> "Total", Block |-> "", Route |-> "", Trip |-> "",
         Start_Stop |-> "", End_Stop |-> "", Loop_Completed_At |-> "",
         Loop_Count |-> total_loops,
         Total_Miles |-> SumMiles(loop_events_tbl, total_loops),
         Trip_Flip |-> TripFlipsText(trip_flip_count), End_Trip |-> ""]

TotalRow(loop_events_tbl, mileage) ==
    LET total_loops == Len(loop_events_tbl)
        trip_flip_count ==
            Cardinality({n \in DOMAIN loop_events_tbl : loop_events_tbl[n].Trip_Flip})
    IN  [Vehicle |-> "Total", Block |-> "", Route |-> "", Trip |-> "",
         Start_Stop |-> "", End_Stop |-> "", Loop_Completed_At |-> "",
         Loop_Count |-> total_loops,
         Total_Miles |-> Round2(total_loops, mileage),
         Trip_Flip |-> TripFlipsText(trip_flip_count), End_Trip |-> ""]

save_loop_events(loop_events_tbl, mileage) ==
    Append(loop_events_tbl, TotalRow(loop_events_tbl, mileage))

(***************************************************************************)
(* Input batches.                                                          *)
(***************************************************************************)
Record(v, b, t, s, ts) ==
    [Vehicle |-> v, Block |-> b, Route |-> 55, Trip |-> t,
     Stop_Name |-> s, Direction |-> "IB", Timestamp |-> ts]

Stops == {"Pattee TC EB", "Jordan East Pk", "College_Allen"}
LoopMileages == {DefaultLoopMileage, 4333, 4335}
Trips == {10, 11}

\* one vehicle on one block; the n-th report is made at 10:00 + n hours
TripBatches ==
    UNION {[1..len -> {Record(1, 1, t, s, 0) : t \in Trips, s \in Stops}]
              : len \in 1..MaxRecords}

TimedTripBatch(b) == [n \in DOMAIN b |-> [b[n] EXCEPT !.Timestamp = 10 + n]]

(***************************************************************************)
(* The session state (a dictionary) and the parameters stored in it.       *)
(***************************************************************************)
\* the columns of a frame built from reports
Columns(reports) == UNION {DOMAIN reports[n] : n \in DOMAIN reports}

\* the report of the except clause of line 255
ErrorMessage == "An error occurred while processing the data"

Has(d, key) == key \in DOMAIN d

Put(d, key, value) ==
    [x \in DOMAIN d \cup {key} |-> IF x = key THEN value ELSE d[x]]

EmptyDict == [x \in {} |-> x]

\* the dictionary stored as st.session_state['params']; dates are day numbers
Params(sd, ed, mileage, ss, es) ==
    [start_date |-> sd, end_date |-> ed, api_base_url |-> "StopReports/v1/CATA/",
     loop_mileage |-> mileage, start_stop |-> ss, end_stop |-> es,
     direction |-> "IB", route_filter |-> 55]

\* f"{start_date}_{end_date}_{api_base_url}"
CacheKey(sd, ed, url) == <<sd, ed, url>>

\* the arguments of fetch_data_in_chunks: 06:00 of the start date, 03:00 of
\* the day after the end date, and the endpoint
FetchArgs(sd, ed, url) == <<sd * 24 + 6, (ed + 1) * 24 + 3, url>>

\* the state at line 245 of a run that fetched batch and passed the filters
InitCommon ==
    /\ pc = "start"
    /\ df_filtered = api_data
    /\ outcome = {"Raw API data fetched successfully!"}
    /\ final_df = <<>>
    /\ LET P == Params(1, 2, loop_mileage, start_stop, end_stop)
       IN  /\ session = [fetch_triggered |-> TRUE, params |-> P,
                         cached_data |-> api_data,
                         cached_data_key |->
                             CacheKey(P.start_date, P.end_date, P.api_base_url)]
           /\ fetch_args = FetchArgs(P.start_date, P.end_date, P.api_base_url)
    /\ df_sorted = <<>>
    /\ groups = <<>>
    /\ g = 1
    /\ group_sorted = <<>>
    /\ i = 1
    /\ trip_loops = <<>>
    /\ k = 1
    /\ loop_events = <<>>
    /\ loop_events_df = <<>>

Init ==
    /\ \E b \in TripBatches : api_data = TimedTripBatch(b)
    /\ start_stop = "Pattee TC EB"
    /\ end_stop \in {"Jordan East Pk", "Pattee TC EB"}
    /\ loop_mileage \in LoopMileages
    /\ InitCommon

\* a small fleet: vehicle 1 serves trips 10 and 11 on block 1 and trip 10 on
\* block 2, vehicle 2 serves trip 10 on block 1; the reports arrive in
\* chronological order at times around the 06:00 boundary of two dates
DayAssignments == {<<1, 1, 10>>, <<1, 1, 11>>, <<1, 2, 10>>, <<2, 1, 10>>}
DayStops == {"Pattee TC EB", "Jordan East Pk"}
DayTimes == {29, 30, 52, 53, 54}

NthSmallest(T, n) == CHOOSE x \in T : Cardinality({y \in T : y < x}) = n - 1

InitDay ==
    /\ \E T \in SUBSET DayTimes :
          /\ Cardinality(T) \in 1..MaxDayRecords
          /\ \E b \in [1..Cardinality(T) -> DayAssignments \X DayStops] :
                api_data = [n \in 1..Cardinality(T) |->
                              Record(b[n][1][1], b[n][1][2], b[n][1][3], b[n][2],
                                     NthSmallest(T, n))]
    /\ start_stop = "Pattee TC EB"
    /\ end_stop = "Jordan East Pk"
    /\ loop_mileage = DefaultLoopMileage
    /\ InitCommon

\* one vehicle on one block whose reports may repeat a timestamp: every
\* report is made at the time of the previous one or an hour later
RECURSIVE SumTo(_, _)
SumTo(b, n) == IF n = 0 THEN 0 ELSE b[n][3] + SumTo(b, n - 1)

InitDup ==
    /\ \E len \in 1..MaxDupRecords :
          \E b \in [1..len -> Trips \X DayStops \X {0, 1}] :
             api_data = [n \in 1..len |->
                           Record(1, 1, b[n][1], b[n][2], 10 + SumTo(b, n))]
    /\ start_stop = "Pattee TC EB"
    /\ end_stop = "Jordan East Pk"
    /\ loop_mileage = DefaultLoopMileage
    /\ InitCommon

(***************************************************************************)
(* Actions.                                                                *)
(***************************************************************************)
\* run_full_process line 245 and get_loop_events lines 302-305, 316; the
\* sort of line 245 raises KeyError when the frame has no Block column.  The
\* run can be stopped at the st.error of line 256, before the report is
\* shown, and at the exit of the spinner of line 184, after it
BeginProcess ==
    /\ pc = "start"
    /\ IF "Block" \notin Columns(df_filtered)
       THEN /\ \/ outcome' = outcome /\ pc' = "stopped"
               \/ outcome' = outcome \cup {ErrorMessage} /\ pc' \in {"stopped", "end"}
            /\ UNCHANGED <<df_filtered, df_sorted, groups, g, loop_events>>
       ELSE /\ df_filtered' = SortByBlockTimestamp(df_filtered)
            /\ df_sorted' = SortByBlockTimestamp(df_filtered')
            /\ groups' = GroupKeys(df_sorted')
            /\ g' = 1
            /\ loop_events' = <<>>
            /\ pc' = "group"
            /\ outcome' = outcome
    /\ UNCHANGED <<session, fetch_args, loop_mileage, final_df,
                   api_data, start_stop, end_stop, group_sorted, i, trip_loops,
                   k, loop_events_df>>

\* the head of the loop over the groups
BeginGroup ==
    /\ pc = "group"
    /\ g <= Len(groups)
    /\ group_sorted' \in GroupRows(df_sorted, groups[g])
    /\ trip_loops' = <<>>
    /\ i' = 1
    /\ pc' = "scan"
    /\ UNCHANGED <<session, fetch_args, loop_mileage, df_filtered, outcome, final_df,
                   api_data, start_stop, end_stop, df_sorted, groups, g, k,
                   loop_events, loop_events_df>>

\* one record of the partition scan; line 325 raises KeyError when the
\* frame has no Trip column.  The run can be stopped at the st.error of line
\* 256, before the report is shown, and at the exit of the spinner of line
\* 184, after it
ScanStep ==
    /\ pc = "scan"
    /\ i <= Len(group_sorted)
    /\ IF "Trip" \notin DOMAIN group_sorted[i]
       THEN /\ \/ outcome' = outcome /\ pc' = "stopped"
               \/ outcome' = outcome \cup {ErrorMessage} /\ pc' \in {"stopped", "end"}
            /\ UNCHANGED <<trip_loops, loop_events, i>>
       ELSE /\ LET S == ScanRow([trip_loops |-> trip_loops,
                                 loop_events |-> loop_events],
                                group_sorted, i, groups[g], start_stop, end_stop)
               IN  /\ trip_loops' = S.trip_loops
                   /\ loop_events' = S.loop_events
            /\ i' = i + 1
            /\ UNCHANGED <<pc, outcome>>
    /\ UNCHANGED <<session, fetch_args, loop_mileage, df_filtered, final_df,
                   api_data, start_stop, end_stop, df_sorted, groups, g,
                   group_sorted, k, loop_events_df>>

\* the scan is over: start the loop over trip_loops.items()
EndScan ==
    /\ pc = "scan"
    /\ i > Len(group_sorted)
    /\ k' = 1
    /\ pc' = "flip"
    /\ UNCHANGED <<session, fetch_args, loop_mileage, df_filtered, outcome, final_df,
                   api_data, start_stop, end_stop, df_sorted, groups, g,
                   group_sorted, i, trip_loops, loop_events, loop_events_df>>

\* one trip of the trip-flip recovery
FlipStep ==
    /\ pc = "flip"
    /\ k <= Len(trip_loops)
    /\ LET S == FlipTrip([trip_loops |-> trip_loops, loop_events |-> loop_events],
                         group_sorted, k, groups[g], start_stop, end_stop)
       IN  /\ trip_loops' = S.trip_loops
           /\ loop_events' = S.loop_events
    /\ k' = k + 1
    /\ UNCHANGED <<session, fetch_args, loop_mileage, df_filtered, outcome, final_df,
                   api_data, start_stop, end_stop, pc, df_sorted, groups, g,
                   group_sorted, i, loop_events_df>>

\* the partition is finished: on to the next group
EndGroup ==
    /\ pc = "flip"
    /\ k > Len(trip_loops)
    /\ g' = g + 1
    /\ pc' = "group"
    /\ UNCHANGED <<session, fetch_args, loop_mileage, df_filtered, outcome, final_df,
                   api_data, start_stop, end_stop, df_sorted, groups,
                   group_sorted, i, trip_loops, k, loop_events, loop_events_df>>

\* lines 419-427: build and sort the table
Finish ==
    /\ pc = "group"
    /\ g > Len(groups)
    /\ loop_events_df' = Collate(loop_events)
    /\ pc' = "done"
    /\ UNCHANGED <<session, fetch_args, loop_mileage, df_filtered, outcome, final_df,
                   api_data, start_stop, end_stop, df_sorted, groups, g,
                   group_sorted, i, trip_loops, k, loop_events>>

\* lines 249-251: the table is empty; stopped at the st.error of line 250,
\* the run has not shown the message, stopped at the exit of the spinner of
\* line 184 it has
ReportNoLoops ==
    /\ pc = "done"
    /\ loop_events_df = <<>>
    /\ \/ /\ outcome' = outcome
          /\ pc' = "stopped"
       \/ /\ outcome' = outcome \cup {"No complete loops were found in the data."}
          /\ pc' \in {"stopped", "end"}
    /\ UNCHANGED <<session, fetch_args, loop_mileage, df_filtered, final_df,
                   api_data, start_stop, end_stop, df_sorted, groups, g,
                   group_sorted, i, trip_loops, k, loop_events, loop_events_df>>

\* a variant that saves whatever the table holds
SaveLoopEventsAlways ==
    /\ pc = "done"
    /\ final_df' = save_loop_events(loop_events_df, loop_mileage)
    /\ outcome' = outcome \cup {"Processing complete!"}
    /\ pc' = "end"
    /\ UNCHANGED <<session, fetch_args, loop_mileage, df_filtered,
                   api_data, start_stop, end_stop, df_sorted, groups, g,
                   group_sorted, i, trip_loops, k, loop_events, loop_events_df>>

\* line 253: save_loop_events.  Line 453 builds final_df; stopped at the
\* st.success of line 459 the run has not shown the message, stopped at a
\* call of lines 461-485 or at the exit of the spinner of line 184 it has
SaveLoopEvents ==
    /\ pc = "done"
    /\ loop_events_df # <<>>
    /\ final_df' = save_loop_events(loop_events_df, loop_mileage)
    /\ \/ /\ outcome' = outcome
          /\ pc' = "stopped"
       \/ /\ outcome' = outcome \cup {"Processing complete!"}
          /\ pc' \in {"stopped", "end"}
    /\ UNCHANGED <<session, fetch_args, loop_mileage, df_filtered,
                   api_data, start_stop, end_stop, df_sorted, groups, g,
                   group_sorted, i, trip_loops, k, loop_events, loop_events_df>>

Next ==
    \/ BeginProcess
    \/ BeginGroup
    \/ ScanStep
    \/ EndScan
    \/ FlipStep
    \/ EndGroup
    \/ Finish
    \/ ReportNoLoops
    \/ SaveLoopEvents

Spec == Init /\ [][Next]_vars

SpecDay == InitDay /\ [][Next]_vars

SpecDup == InitDup /\ [][Next]_vars

(***************************************************************************)
(* run_full_process from its first line: the fetch with its cache in the   *)
(* session state and the filters in front of get_loop_events.  Streamlit   *)
(* stops a run at one of its calls once the user has interacted again      *)
(* (pc = "stopped").                                                       *)
(***************************************************************************)
Dates == {1, 2}

RawRecord(route, dir, t, s, ts) ==
    [Record(1, 1, t, s, ts) EXCEPT !.Route = route, !.Direction = dir]

\* a report that lacks one field
Without(r, field) == [x \in DOMAIN r \ {field} |-> r[x]]

\* one loop of route 55 inbound among reports of another route and direction
LoopBatch ==
    <<RawRecord(55, "IB", 10, "Pattee TC EB", 30),
      RawRecord(57, "IB", 10, "Pattee TC EB", 31),
      RawRecord(55, "OB", 10, "Pattee TC EB", 32),
      RawRecord(55, "IB", 10, "Jordan East Pk", 33)>>

NoLoopBatch == <<RawRecord(55, "IB", 10, "Pattee TC EB", 30)>>

OtherRouteBatch == <<RawRecord(57, "IB", 10, "Pattee TC EB", 30)>>

OtherDirectionBatch == <<RawRecord(55, "OB", 10, "Pattee TC EB", 30)>>

\* the second report has no Stop_Name
MalformedBatch ==
    <<RawRecord(55, "IB", 10, "Pattee TC EB", 30),
      Without(RawRecord(55, "IB", 10, "College_Allen", 31), "Stop_Name"),
      RawRecord(55, "IB", 10, "Jordan East Pk", 32)>>

\* no report has a Stop_Name
NoStopNameBatch ==
    <<Without(RawRecord(55, "IB", 10, "Pattee TC EB", 30), "Stop_Name")>>

\* no report has a Timestamp, a Direction, a Block, a Trip
NoTimestampBatch ==
    <<Without(RawRecord(55, "IB", 10, "Pattee TC EB", 30), "Timestamp")>>

NoDirectionBatch ==
    <<Without(RawRecord(55, "IB", 10, "Pattee TC EB", 30), "Direction")>>

NoBlockBatch ==
    <<Without(RawRecord(55, "IB", 10, "Pattee TC EB", 30), "Block")>>

NoTripBatch ==
    <<Without(RawRecord(55, "IB", 10, "Pattee TC EB", 30), "Trip")>>

\* the batches of reports a fetch can bring
Batches ==
    {LoopBatch, NoLoopBatch, OtherRouteBatch, OtherDirectionBatch,
     MalformedBatch, NoStopNameBatch, NoTimestampBatch, NoDirectionBatch,
     NoBlockBatch, NoTripBatch}

\* how the requests of fetch_data_in_chunks can be answered: a request
\* fails (error "request"), an answer is not JSON (error "json"), or the
\* answers hold the reports
ApiResponses ==
    {[error |-> e, reports |-> <<>>] : e \in {"request", "json", ""}}
    \cup {[error |-> "", reports |-> b] : b \in Batches}

\* lines 281-286: the message of a failed fetch.  response.json() raises
\* the JSONDecodeError of requests, which newer versions of requests derive
\* from RequestException too, so that the clause of line 281 catches it;
\* with older versions the clause of line 284 does
FetchErrorMessages(error) ==
    IF error = "request"
    THEN {"Failed to fetch data"}
    ELSE {"Failed to fetch data", "Failed to decode API response."}

NaN == "NaN"

\* pd.DataFrame(api_data): a column for every key that occurs, NaN where a
\* report lacks the key
DataFrame(reports) ==
    LET columns == UNION {DOMAIN reports[n] : n \in DOMAIN reports}
    IN  [n \in DOMAIN reports |->
            [c \in columns |-> IF c \in DOMAIN reports[n] THEN reports[n][c] ELSE NaN]]

FilterRoute(df, route_filter) ==
    LET Keep(row) == row.Route = route_filter
    IN  SelectSeq(df, Keep)

FilterDirection(df, direction_to_keep) ==
    LET Keep(row) == IF direction_to_keep = "Both"
                     THEN row.Direction \in {"IB", "OB"}
                     ELSE row.Direction = direction_to_keep
    IN  SelectSeq(df, Keep)

\* the exception that nothing catches: the script run ends with it
KeyErrorCachedData == "KeyError: 'cached_data'"

\* a call of run_full_process (lines 149-160) with the parameters of the
\* session, which holds no cached data or the data and the key of an
\* earlier fetch
InitProcess ==
    /\ pc = "run"
    /\ start_stop = "Pattee TC EB"
    /\ end_stop = "Jordan East Pk"
    /\ loop_mileage = DefaultLoopMileage
    /\ \E sd \in Dates : \E ed \in Dates :
          /\ sd <= ed
          /\ LET P    == Params(sd, ed, loop_mileage, start_stop, end_stop)
                 base == [fetch_triggered |-> TRUE, params |-> P]
             IN  \/ session = base
                 \/ \E csd \in Dates : \E ced \in Dates : \E b \in Batches :
                       /\ csd <= ced
                       /\ session = Put(Put(base, "cached_data", b), "cached_data_key",
                                        CacheKey(csd, ced, P.api_base_url))
    /\ fetch_args = <<>>
    /\ outcome = {}
    /\ api_data = <<>>
    /\ df_filtered = <<>>
    /\ df_sorted = <<>>
    /\ groups = <<>>
    /\ g = 1
    /\ group_sorted = <<>>
    /\ i = 1
    /\ trip_loops = <<>>
    /\ k = 1
    /\ loop_events = <<>>
    /\ loop_events_df = <<>>
    /\ final_df = <<>>

\* the user interacts while the run is at a Streamlit call that finds the
\* state as the step before left it: lines 168-170 at the start, lines
\* 184-190 after the fetch or the cache.  The run is stopped, the session and the
\* locals as they are
StopRun ==
    /\ pc \in {"run", "frame"}
    /\ pc' = "stopped"
    /\ UNCHANGED <<api_data, start_stop, end_stop, df_sorted, groups, g,
                   group_sorted, i, trip_loops, k, loop_events, loop_events_df,
                   loop_mileage, df_filtered, outcome, final_df, session,
                   fetch_args>>

NeedsFetch(sess) ==
    IF ~Has(sess, "cached_data_key") THEN TRUE
    ELSE sess["cached_data_key"] #
            CacheKey(sess["params"].start_date, sess["params"].end_date,
                     sess["params"].api_base_url)

\* lines 167-179 and fetch_data_in_chunks: no cached data for the key of
\* the stored parameters.  The call of line 171 is made with the new
\* arguments; the run can be stopped at the Streamlit calls of lines
\* 264-297 and at line 174 before its message (nothing shown, nothing
\* stored), at line 174 after the message of a failed fetch, at line 178
\* (the data fetched, nothing stored) and at line 179 (the data stored
\* without their key)
FetchData ==
    /\ pc = "run"
    /\ NeedsFetch(session)
    /\ LET P   == session["params"]
           key == CacheKey(P.start_date, P.end_date, P.api_base_url)
           no_data == "No data was returned from the API for the selected date range."
       IN  /\ fetch_args' = FetchArgs(P.start_date, P.end_date, P.api_base_url)
           /\ \/ /\ api_data' = <<>>
                 /\ session' = session
                 /\ outcome' = outcome
                 /\ pc' = "stopped"
              \/ \E resp \in ApiResponses :
                    /\ api_data' = resp.reports
                    /\ IF resp.error # ""
                       THEN /\ session' = session
                            /\ \E msg \in FetchErrorMessages(resp.error) :
                                  \/ /\ outcome' = outcome \cup {msg}
                                     /\ pc' = "stopped"
                                  \/ /\ outcome' = outcome \cup {msg, no_data}
                                     /\ pc' = "end"
                       ELSE IF resp.reports = <<>>
                       THEN /\ session' = session
                            /\ outcome' = outcome \cup {no_data}
                            /\ pc' = "end"
                       ELSE /\ outcome' = outcome
                            /\ \/ /\ session' = session
                                  /\ pc' = "stopped"
                               \/ /\ session' = Put(session, "cached_data", resp.reports)
                                  /\ pc' = "stopped"
                               \/ /\ session' = Put(Put(session, "cached_data", resp.reports),
                                                    "cached_data_key", key)
                                  /\ pc' = "frame"
    /\ UNCHANGED <<loop_mileage, start_stop, end_stop, df_filtered, df_sorted,
                   groups, g, group_sorted, i, trip_loops, k, loop_events,
                   loop_events_df, final_df>>

\* lines 180-182: the cached data is for the key of the stored parameters;
\* without cached_data in the session line 182 raises KeyError, outside
\* the try statement
UseCache ==
    /\ pc = "run"
    /\ ~NeedsFetch(session)
    /\ IF Has(session, "cached_data")
       THEN /\ api_data' = session["cached_data"]
            /\ outcome' = outcome
            /\ pc' = "frame"
       ELSE /\ api_data' = api_data
            /\ outcome' = outcome \cup {KeyErrorCachedData}
            /\ pc' = "end"
    /\ UNCHANGED <<session, fetch_args, loop_mileage, start_stop, end_stop,
                   df_filtered, df_sorted, groups, g, group_sorted, i, trip_loops,
                   k, loop_events, loop_events_df, final_df>>

\* lines 184-242 and 255-256: the frame, the route and direction filters.
\* A column that no report has raises KeyError at the line that reads it:
\* Timestamp at line 187, Vehicle, Route and Stop_Name at lines 197-201,
\* Direction at lines 236-238.  After the st.success of line 190 the run
\* can be stopped at the Streamlit calls of lines 193-226 and at the
\* st.error of lines 231, 241 and 256 (the success message is all it shows),
\* and after its last message at the exit of the spinner of line 184
PrepareFrame ==
    /\ pc = "frame"
    /\ LET P        == session["params"]
           df       == DataFrame(api_data)
           by_route == FilterRoute(df, P.route_filter)
           by_dir   == FilterDirection(by_route, P.direction)
           success  == "Raw API data fetched successfully!"
       IN  \/ /\ "Timestamp" \in Columns(df)
              /\ outcome' = outcome \cup {success}
              /\ df_filtered' = <<>>
              /\ pc' = "stopped"
           \/ IF "Timestamp" \notin Columns(df)
              THEN /\ outcome' = outcome \cup {ErrorMessage}
                   /\ df_filtered' = <<>>
                   /\ pc' \in {"stopped", "end"}
              ELSE IF ~({"Vehicle", "Route", "Stop_Name"} \subseteq Columns(df))
              THEN /\ outcome' = outcome \cup {success, ErrorMessage}
                   /\ df_filtered' = <<>>
                   /\ pc' \in {"stopped", "end"}
              ELSE IF by_route = <<>>
              THEN /\ outcome' = outcome \cup {success, "No data found for Route"}
                   /\ df_filtered' = <<>>
                   /\ pc' \in {"stopped", "end"}
              ELSE IF "Direction" \notin Columns(df)
              THEN /\ outcome' = outcome \cup {success, ErrorMessage}
                   /\ df_filtered' = <<>>
                   /\ pc' \in {"stopped", "end"}
              ELSE IF by_dir = <<>>
              THEN /\ outcome' = outcome
                           \cup {success, "No data found for the specified stops and Direction"}
                   /\ df_filtered' = <<>>
                   /\ pc' \in {"stopped", "end"}
              ELSE /\ outcome' = outcome \cup {success}
                   /\ df_filtered' = by_dir
                   /\ pc' = "start"
    /\ UNCHANGED <<session, fetch_args, api_data, loop_mileage, start_stop,
                   end_stop, df_sorted, groups, g, group_sorted, i, trip_loops, k,
                   loop_events, loop_events_df, final_df>>

NextProcess ==
    \/ StopRun
    \/ FetchData
    \/ UseCache
    \/ PrepareFrame
    \/ Next

SpecProcess == InitProcess /\ [][NextProcess]_vars

(***************************************************************************)
(* main.  Lines 61 and 97 create the same st.selectbox("Route Loop", ...)  *)
(* without a key, and Streamlit refuses the second of two identical        *)
(* widgets: a run that passes the returns of lines 53 and 88 ends at line  *)
(* 97 with that exception.  No run draws the buttons of lines 115-119,     *)
(* writes to the session state or calls run_full_process.                  *)
(***************************************************************************)
EarlyReturnMessages ==
    {"Please enter your API subscription key to continue.",
     "Start date cannot be after the end date."}

DuplicateWidgetID == "DuplicateWidgetID"

\* before the first run of the script: an empty session, an empty page
InitUI ==
    /\ pc = "end"
    /\ session = EmptyDict
    /\ fetch_args = <<>>
    /\ start_stop = "Pattee TC EB"
    /\ end_stop = "Jordan East Pk"
    /\ loop_mileage = DefaultLoopMileage
    /\ outcome = {}
    /\ api_data = <<>>
    /\ df_filtered = <<>>
    /\ df_sorted = <<>>
    /\ groups = <<>>
    /\ g = 1
    /\ group_sorted = <<>>
    /\ i = 1
    /\ trip_loops = <<>>
    /\ k = 1
    /\ loop_events = <<>>
    /\ loop_events_df = <<>>
    /\ final_df = <<>>

\* no script run is under way: the last one ended, or was stopped by the
\* interaction that starts the next one
RunOver == pc \in {"end", "stopped"}

\* what a script run leaves alone: the session, and the locals of
\* run_full_process, which it never calls
MainLeaves ==
    UNCHANGED <<api_data, start_stop, end_stop, df_sorted, groups, g,
                group_sorted, i, trip_loops, k, loop_events, loop_events_df,
                loop_mileage, df_filtered, final_df, session, fetch_args>>

\* main returns at line 53 or 88
MainReturnsEarly ==
    /\ RunOver
    /\ \E msg \in EarlyReturnMessages : outcome' = {msg}
    /\ pc' = "end"
    /\ MainLeaves

\* a run that is stopped at a Streamlit call of lines 10-97, before it has
\* shown a message
MainStopped ==
    /\ RunOver
    /\ outcome' = {}
    /\ pc' = "stopped"
    /\ MainLeaves

\* a run with an API key and a valid date range: lines 10-97
Rerun ==
    /\ RunOver
    /\ outcome' = {DuplicateWidgetID}
    /\ pc' = "end"
    /\ MainLeaves

NextUI ==
    \/ MainReturnsEarly
    \/ MainStopped
    \/ Rerun

SpecUI == InitUI /\ [][NextUI]_vars

(***************************************************************************)
(* Vocabulary of the properties.                                           *)
(***************************************************************************)
Done == pc = "done"

\* the rows of a partition in the order of their timestamps (rows of equal
\* timestamp in the order of line 305)
Partition(key) ==
    LET InGroup(row) == GroupKey(row) = key
    IN  SelectSeq(SortByBlockTimestamp(api_data), InGroup)

PartitionKeys == {GroupKey(api_data[n]) : n \in DOMAIN api_data}

EventKey(e) == <<e.Vehicle, e.Block, e.Route>>

\* the positions in loop_events of the events of one partition
EventsOf(key) == {n \in DOMAIN loop_events : EventKey(loop_events[n]) = key}

CompletedAt(e) == e.Loop_Completed_At.date * 24 + e.Loop_Completed_At.hour

TextOf(ts) == [date |-> ts \div 24, hour |-> ts % 24]

(***************************************************************************)
(* C1  Trip re-arming.  With distinct start and end stops, a partition     *)
(* that is one trip visiting start, end, start, end yields exactly two     *)
(* events, both without trip flip and with End_Trip = Trip; and in every   *)
(* partition every end-stop visit of a trip whose previous start-or-end    *)
(* visit was a start-stop visit closes exactly one event of that trip.     *)
(***************************************************************************)
IsStartEndStartEnd(P) ==
    /\ Len(P) = 4
    /\ \A n \in 1..4 : P[n].Trip = P[1].Trip
    /\ P[1].Stop_Name = start_stop /\ P[2].Stop_Name = end_stop
    /\ P[3].Stop_Name = start_stop /\ P[4].Stop_Name = end_stop
    /\ \A n \in 1..3 : P[n].Timestamp < P[n + 1].Timestamp

\* row e is an end-stop visit that follows a start-stop visit of its trip
StartThenEnd(P, e) ==
    /\ P[e].Stop_Name = end_stop
    /\ \E s \in 1..(e - 1) :
          /\ P[s].Trip = P[e].Trip
          /\ P[s].Stop_Name = start_stop
          /\ \A m \in (s + 1)..(e - 1) :
                P[m].Trip = P[e].Trip => P[m].Stop_Name \notin {start_stop, end_stop}

ClosedBy(key, P, e) ==
    {n \in EventsOf(key) :
        /\ loop_events[n].End_Index = e
        /\ loop_events[n].Trip = P[e].Trip
        /\ loop_events[n].End_Trip = P[e].Trip
        /\ loop_events[n].Trip_Flip = FALSE
        /\ loop_events[n].Loop_Completed_At = TextOf(P[e].Timestamp)}

C1_TripRearming ==
    (Done /\ start_stop # end_stop) =>
        \A key \in PartitionKeys :
            LET P == Partition(key)
            IN  /\ IsStartEndStartEnd(P) =>
                      /\ Cardinality(EventsOf(key)) = 2
                      /\ \A n \in EventsOf(key) :
                            /\ loop_events[n].Trip_Flip = FALSE
                            /\ loop_events[n].End_Trip = loop_events[n].Trip
                /\ \A e \in DOMAIN P :
                      StartThenEnd(P, e) => Cardinality(ClosedBy(key, P, e)) = 1

C1_Witness ==
    /\ Done
    /\ start_stop # end_stop
    /\ IsStartEndStartEnd(api_data)
    /\ Len(loop_events_df) = 2
    /\ \A n \in 1..2 : loop_events_df[n].Trip_Flip = FALSE

(***************************************************************************)
(* C2  Trip flip scenario.  As claimed: a partition (A, start, t1),        *)
(* (B, other stop, t2), (B, end, t3) with A # B yields exactly one event   *)
(* with Trip = A, End_Trip = B, Trip_Flip = true, completed at t3.         *)
(***************************************************************************)
IsFlipWithStopBetween(P) ==
    /\ Len(P) = 3
    /\ P[1].Stop_Name = start_stop
    /\ P[2].Trip # P[1].Trip /\ P[3].Trip = P[2].Trip
    /\ P[2].Stop_Name \notin {start_stop, end_stop}
    /\ P[3].Stop_Name = end_stop
    /\ P[1].Timestamp < P[2].Timestamp /\ P[2].Timestamp < P[3].Timestamp

IsDirectFlip(P) ==
    /\ Len(P) = 2
    /\ P[1].Stop_Name = start_stop
    /\ P[2].Trip # P[1].Trip
    /\ P[2].Stop_Name = end_stop
    /\ P[1].Timestamp < P[2].Timestamp

OneFlipEvent(key, first, last) ==
    /\ Cardinality(EventsOf(key)) = 1
    /\ \A n \in EventsOf(key) :
          /\ loop_events[n].Trip = first.Trip
          /\ loop_events[n].End_Trip = last.Trip
          /\ loop_events[n].Trip_Flip = TRUE
          /\ loop_events[n].Loop_Completed_At = TextOf(last.Timestamp)

C2_AsClaimed ==
    Done =>
        \A key \in PartitionKeys :
            LET P == Partition(key)
            IN  IsFlipWithStopBetween(P) => OneFlipEvent(key, P[1], P[3])

(***************************************************************************)
(* C2 as amended: the one trip-flip event arises when the record of trip B *)
(* at the end stop directly follows the start-stop record of trip A; with  *)
(* a record of trip B at another stop in between, no event is emitted.     *)
(***************************************************************************)
C2_TripFlipScenario ==
    Done =>
        \A key \in PartitionKeys :
            LET P == Partition(key)
            IN  /\ IsDirectFlip(P) => OneFlipEvent(key, P[1], P[2])
                /\ IsFlipWithStopBetween(P) => EventsOf(key) = {}

C2_Witness ==
    /\ Done
    /\ IsDirectFlip(api_data)
    /\ Len(loop_events_df) = 1
    /\ loop_events_df[1].Trip_Flip = TRUE
    /\ loop_events_df[1].Trip = api_data[1].Trip
    /\ loop_events_df[1].End_Trip = api_data[2].Trip

(***************************************************************************)
(* C3  No false completion.  A start-stop visit of a trip at position s    *)
(* of a partition, with no later end-stop visit of that trip and with the  *)
(* first later record of another trip absent or not an end-stop visit,     *)
(* is the arming of no event.                                              *)
(***************************************************************************)
\* j is the first record after s whose trip differs from that of s
FirstOtherTrip(P, s, j) ==
    /\ j > s
    /\ P[j].Trip # P[s].Trip
    /\ \A m \in (s + 1)..(j - 1) : P[m].Trip = P[s].Trip

Unclosable(P, s) ==
    /\ P[s].Stop_Name = start_stop
    /\ \A e \in (s + 1)..Len(P) :
          P[e].Trip = P[s].Trip => P[e].Stop_Name # end_stop
    /\ \A j \in (s + 1)..Len(P) :
          FirstOtherTrip(P, s, j) => P[j].Stop_Name # end_stop

C3_NoFalseCompletion ==
    Done =>
        \A key \in PartitionKeys :
            LET P == Partition(key)
            IN  \A s \in DOMAIN P :
                    Unclosable(P, s) =>
                        \A n \in EventsOf(key) :
                            ~(/\ loop_events[n].Trip = P[s].Trip
                              /\ loop_events[n].Start_Index = s)

\* a waiting trip is followed by another trip that reaches the end stop
\* only after a record at another stop, and nothing is emitted for it
C3_Witness ==
    /\ Done
    /\ \E s \in DOMAIN api_data :
          /\ Unclosable(api_data, s)
          /\ \E j \in (s + 1)..Len(api_data) : FirstOtherTrip(api_data, s, j)
          /\ \E e \in (s + 1)..Len(api_data) :
                api_data[e].Trip # api_data[s].Trip /\ api_data[e].Stop_Name = end_stop
          /\ \A n \in DOMAIN loop_events : loop_events[n].Trip # api_data[s].Trip


(***************************************************************************)
(* C4  Duplicate suppression.  When two records of the batch share         *)
(* (vehicle, block, route, timestamp, stop_name) and differ only in trip,  *)
(* the event table is the one obtained from the batch without the second   *)
(* of the two records.                                                     *)
(***************************************************************************)
IsDuplicate(a, b) ==
    /\ a.Vehicle = b.Vehicle /\ a.Block = b.Block /\ a.Route = b.Route
    /\ a.Timestamp = b.Timestamp /\ a.Stop_Name = b.Stop_Name
    /\ a.Trip # b.Trip

RemoveAt(s, q) == [n \in 1..(Len(s) - 1) |-> IF n < q THEN s[n] ELSE s[n + 1]]

C4_DuplicateSuppression ==
    Done =>
        \A p \in DOMAIN api_data : \A q \in DOMAIN api_data :
            (p < q /\ IsDuplicate(api_data[p], api_data[q])) =>
                loop_events_df \in
                    get_loop_events(RemoveAt(api_data, q), start_stop, end_stop)

(***************************************************************************)
(* C5  Ordinal monotonicity across blocks.  For every vehicle and service  *)
(* day, the Loop_Count values of the vehicle's events completed on that    *)
(* service day are exactly 1..k, k being their number, over all blocks.    *)
(***************************************************************************)
ServiceDayOf(e) ==
    IF e.Loop_Completed_At.hour >= 6 THEN e.Loop_Completed_At.date
    ELSE e.Loop_Completed_At.date - 1

RowsOn(vehicle, day) ==
    {n \in DOMAIN loop_events_df :
        /\ loop_events_df[n].Vehicle = vehicle
        /\ ServiceDayOf(loop_events_df[n]) = day}

C5_OrdinalsAcrossBlocks ==
    Done =>
        \A m \in DOMAIN loop_events_df :
            LET rows == RowsOn(loop_events_df[m].Vehicle, ServiceDayOf(loop_events_df[m]))
            IN  {loop_events_df[n].Loop_Count : n \in rows} = 1..Cardinality(rows)

\* a vehicle completes loops on two blocks on one service day
C5_Witness ==
    /\ Done
    /\ \E m \in DOMAIN loop_events_df : \E n \in DOMAIN loop_events_df :
          /\ loop_events_df[m].Vehicle = loop_events_df[n].Vehicle
          /\ loop_events_df[m].Block # loop_events_df[n].Block
          /\ ServiceDayOf(loop_events_df[m]) = ServiceDayOf(loop_events_df[n])
          /\ loop_events_df[m].Loop_Count = 1
          /\ loop_events_df[n].Loop_Count = 2

(***************************************************************************)
(* C6  Chronological numbering.  Of two events of the same vehicle and     *)
(* service day, the one completed earlier has the smaller Loop_Count.      *)
(***************************************************************************)
C6_ChronologicalNumbering ==
    Done =>
        \A m \in DOMAIN loop_events_df : \A n \in DOMAIN loop_events_df :
            (/\ loop_events_df[m].Vehicle = loop_events_df[n].Vehicle
             /\ ServiceDayOf(loop_events_df[m]) = ServiceDayOf(loop_events_df[n])
             /\ CompletedAt(loop_events_df[m]) < CompletedAt(loop_events_df[n]))
                => loop_events_df[m].Loop_Count < loop_events_df[n].Loop_Count

(***************************************************************************)
(* C7  Service-day boundary.  The events of a vehicle completed from 06:00 *)
(* of a calendar date up to, but not including, 06:00 of the next date are *)
(* numbered together, 1..k: a completion before 06:00 is counted with the  *)
(* previous date, a completion at 06:00 with the current one.              *)
(***************************************************************************)
RowsInWindow(vehicle, date) ==
    {n \in DOMAIN loop_events_df :
        /\ loop_events_df[n].Vehicle = vehicle
        /\ CompletedAt(loop_events_df[n]) >= date * 24 + 6
        /\ CompletedAt(loop_events_df[n]) < (date + 1) * 24 + 6}

C7_ServiceDayBoundary ==
    Done =>
        \A m \in DOMAIN loop_events_df :
            \A date \in {loop_events_df[m].Loop_Completed_At.date - 1,
                         loop_events_df[m].Loop_Completed_At.date} :
                LET rows == RowsInWindow(loop_events_df[m].Vehicle, date)
                IN  {loop_events_df[n].Loop_Count : n \in rows} = 1..Cardinality(rows)

\* a loop completed at 05:00 is numbered 2, after a loop of the date before
C7_Witness ==
    /\ Done
    /\ \E m \in DOMAIN loop_events_df : \E n \in DOMAIN loop_events_df :
          /\ loop_events_df[m].Vehicle = loop_events_df[n].Vehicle
          /\ loop_events_df[m].Loop_Completed_At.hour >= 6
          /\ loop_events_df[n].Loop_Completed_At.hour = 5
          /\ loop_events_df[n].Loop_Completed_At.date
                = loop_events_df[m].Loop_Completed_At.date + 1
          /\ loop_events_df[m].Loop_Count = 1
          /\ loop_events_df[n].Loop_Count = 2

(***************************************************************************)
(* C8  Degenerate configuration.  With start_stop = end_stop, a partition  *)
(* that is two consecutive visits of one trip to that stop yields one      *)
(* event, completed at the second visit.                                   *)
(***************************************************************************)
IsTwoVisits(P) ==
    /\ Len(P) = 2
    /\ P[1].Trip = P[2].Trip
    /\ P[1].Stop_Name = start_stop /\ P[2].Stop_Name = end_stop
    /\ P[1].Timestamp < P[2].Timestamp

C8_DegenerateConfiguration ==
    (Done /\ start_stop = end_stop) =>
        \A key \in PartitionKeys :
            LET P == Partition(key)
            IN  IsTwoVisits(P) =>
                    /\ Cardinality(EventsOf(key)) = 1
                    /\ \A n \in EventsOf(key) :
                          loop_events[n].Loop_Completed_At = TextOf(P[2].Timestamp)

(***************************************************************************)
(* C9  Trip_Flip is true exactly when End_Trip differs from Trip: every    *)
(* event appended by the scan has End_Trip = Trip and Trip_Flip = false,   *)
(* every event appended by trip-flip recovery has End_Trip # Trip and      *)
(* Trip_Flip = true.                                                       *)
(***************************************************************************)
C9_TripFlipIffTripsDiffer ==
    [][\A n \in DOMAIN loop_events' :
          /\ loop_events'[n].Trip_Flip = (loop_events'[n].End_Trip # loop_events'[n].Trip)
          /\ n > Len(loop_events) =>
                /\ pc = "scan" => loop_events'[n].Trip_Flip = FALSE
                /\ pc = "flip" => loop_events'[n].Trip_Flip = TRUE]_vars

\* a run that emitted an event of either kind
C9_Witness ==
    /\ Done
    /\ \E n \in DOMAIN loop_events :
          loop_events[n].Trip_Flip /\ loop_events[n].End_Trip # loop_events[n].Trip
    /\ \E n \in DOMAIN loop_events :
          ~loop_events[n].Trip_Flip /\ loop_events[n].End_Trip = loop_events[n].Trip

(***************************************************************************)
(* C10  Final ordering.  Of two consecutive rows of the returned table,    *)
(* either the block increases, or the block is the same and the completion *)
(* time does not decrease.                                                 *)
(***************************************************************************)
C10_FinalOrdering ==
    Done =>
        \A n \in 1..(Len(loop_events_df) - 1) :
            \/ loop_events_df[n].Block < loop_events_df[n + 1].Block
            \/ /\ loop_events_df[n].Block = loop_events_df[n + 1].Block
               /\ CompletedAt(loop_events_df[n]) <= CompletedAt(loop_events_df[n + 1])

\* the table is not in the order of emission: the sort moved a row
C10_Witness ==
    /\ Done
    /\ Len(loop_events_df) >= 2
    /\ \E n \in DOMAIN loop_events : TableRow(loop_events[n]) # loop_events_df[n]
    /\ \E n \in 1..(Len(loop_events_df) - 1) :
          loop_events_df[n].Block = loop_events_df[n + 1].Block

(***************************************************************************)
(* C11  Aggregate summary row.  save_loop_events returns the event rows    *)
(* followed by exactly one summary row with Vehicle = "Total", Loop_Count  *)
(* = the number of event rows, Total_Miles = that number times the loop    *)
(* mileage rounded to hundredths, and Trip_Flip = "<n> trip flips", n      *)
(* being the number of event rows with Trip_Flip = true.                   *)
(***************************************************************************)
Ended == pc = "end"

\* h hundredths is a hundredth nearest to x thousandths
IsRounded(h, x) == 10 * h - 5 <= x /\ x <= 10 * h + 5

RECURSIVE MilesOfRows(_)
MilesOfRows(rows) ==
    IF rows = <<>> THEN 0 ELSE Head(rows).Total_Miles + MilesOfRows(Tail(rows))

C11_SummaryRow ==
    (Ended /\ loop_events_df # <<>>) =>
        LET n == Len(loop_events_df)
        IN  /\ Len(final_df) = n + 1
            /\ \A m \in 1..n : final_df[m] = loop_events_df[m]
            /\ final_df[n + 1].Vehicle = "Total"
            /\ final_df[n + 1].Loop_Count = n
            /\ IsRounded(final_df[n + 1].Total_Miles, n * loop_mileage)
            /\ final_df[n + 1].Trip_Flip =
                  <<Cardinality({m \in 1..n : loop_events_df[m].Trip_Flip}), "trip flips">>

\* a summary whose Total_Miles is not the sum of the rows' Total_Miles and
\* which counts a trip flip
C11_Witness ==
    /\ Ended
    /\ Len(loop_events_df) = 2
    /\ Len(final_df) = 3
    /\ final_df[3].Total_Miles # MilesOfRows(loop_events_df)
    /\ final_df[3].Trip_Flip = <<1, "trip flips">>

(***************************************************************************)
(* C12  Mileage consistency.  Every emitted event, normal or trip-flip,    *)
(* has Total_Miles = Loop_Count times the loop mileage, rounded to         *)
(* hundredths.                                                             *)
(***************************************************************************)
C12_MileageConsistency ==
    \A n \in DOMAIN loop_events :
        IsRounded(loop_events[n].Total_Miles, loop_events[n].Loop_Count * loop_mileage)

\* a second loop whose mileage is not a whole number of hundredths, with a
\* trip-flip event among the events
C12_Witness ==
    /\ Done
    /\ \E n \in DOMAIN loop_events :
          /\ loop_events[n].Loop_Count = 2
          /\ (2 * loop_mileage) % 10 # 0
          /\ loop_events[n].Total_Miles = 867
    /\ \E n \in DOMAIN loop_events : loop_events[n].Trip_Flip

(***************************************************************************)
(* C13  Empty result.  When no loop is completed, get_loop_events returns  *)
(* an empty table, run_full_process reports that no complete loops were    *)
(* found and ends without a summary and without an error report.           *)
(***************************************************************************)
C13_EmptyResultIsReported ==
    /\ (Done /\ loop_events = <<>>) => loop_events_df = <<>>
    /\ (Ended /\ loop_events = <<>>) =>
          /\ loop_events_df = <<>>
          /\ "No complete loops were found in the data." \in outcome
          /\ "Processing complete!" \notin outcome
          /\ ErrorMessage \notin outcome
          /\ final_df = <<>>

\* a batch with a start-stop visit that is never closed
C13_Witness ==
    /\ Ended
    /\ \E n \in DOMAIN df_filtered : df_filtered[n].Stop_Name = start_stop
    /\ loop_events_df = <<>>
    /\ final_df = <<>>
    /\ "No complete loops were found in the data." \in outcome

(***************************************************************************)
(* C14  Fail fast on malformed input.  If a record of the batch lacks a    *)
(* required field, the run of run_full_process ends with an error report   *)
(* and without loop-event table or summary.                                *)
(***************************************************************************)
RequiredFields == {"Vehicle", "Block", "Route", "Trip", "Stop_Name", "Timestamp"}

Malformed(reports) ==
    \E n \in DOMAIN reports : ~(RequiredFields \subseteq DOMAIN reports[n])

C14_FailFast ==
    (Malformed(api_data) /\ Ended) =>
        /\ ErrorMessage \in outcome
        /\ loop_events_df = <<>>
        /\ final_df = <<>>

(***************************************************************************)
(* C15  One event per arming in the scan.  Every non-flip event is closed  *)
(* by an end-stop visit of its trip and armed by the latest start-stop     *)
(* visit of that trip before it, with no start-stop or end-stop visit of   *)
(* the trip in between; no two non-flip events of a partition share their  *)
(* arming or their closing record.                                         *)
(***************************************************************************)
NormalEventsOf(key) == {n \in EventsOf(key) : ~loop_events[n].Trip_Flip}

C15_OneEventPerArming ==
    Done =>
        \A key \in PartitionKeys :
            LET P == Partition(key)
            IN  /\ \A n \in NormalEventsOf(key) :
                      LET ev == loop_events[n]
                      IN  /\ ev.Start_Index \in DOMAIN P /\ ev.End_Index \in DOMAIN P
                          /\ ev.Start_Index < ev.End_Index
                          /\ P[ev.Start_Index].Trip = ev.Trip
                          /\ P[ev.Start_Index].Stop_Name = start_stop
                          /\ P[ev.End_Index].Trip = ev.Trip
                          /\ P[ev.End_Index].Stop_Name = end_stop
                          /\ \A m \in (ev.Start_Index + 1)..(ev.End_Index - 1) :
                                P[m].Trip = ev.Trip =>
                                    P[m].Stop_Name \notin {start_stop, end_stop}
                /\ \A m \in NormalEventsOf(key) : \A n \in NormalEventsOf(key) :
                      m # n =>
                          /\ loop_events[m].Start_Index # loop_events[n].Start_Index
                          /\ loop_events[m].End_Index # loop_events[n].End_Index

\* start, start, end, end of one trip: one event, armed by the second start
\* visit and closed by the first end visit
C15_Witness ==
    /\ Done
    /\ Len(api_data) = 4
    /\ \A n \in 1..4 : api_data[n].Trip = api_data[1].Trip
    /\ start_stop # end_stop
    /\ api_data[1].Stop_Name = start_stop /\ api_data[2].Stop_Name = start_stop
    /\ api_data[3].Stop_Name = end_stop /\ api_data[4].Stop_Name = end_stop
    /\ Len(loop_events) = 1
    /\ loop_events[1].Start_Index = 2
    /\ loop_events[1].End_Index = 3

(***************************************************************************)
(* C16  Trip-flip recovery looks one boundary forward.  For a trip whose   *)
(* last start-stop visit is followed by no end-stop visit of its own, a    *)
(* trip-flip event is emitted exactly when the first later record of       *)
(* another trip is an end-stop visit, and that record closes it; a trip    *)
(* that is not left waiting gets no trip-flip event.                       *)
(***************************************************************************)
FlipEventsOf(key, trip) ==
    {n \in EventsOf(key) : loop_events[n].Trip_Flip /\ loop_events[n].Trip = trip}

IsLastStart(P, s) ==
    /\ P[s].Stop_Name = start_stop
    /\ \A m \in (s + 1)..Len(P) : P[m].Trip = P[s].Trip => P[m].Stop_Name # start_stop

LeftWaiting(P, s) ==
    /\ IsLastStart(P, s)
    /\ \A m \in (s + 1)..Len(P) : P[m].Trip = P[s].Trip => P[m].Stop_Name # end_stop

C16_OneBoundaryForward ==
    Done =>
        \A key \in PartitionKeys :
            LET P == Partition(key)
            IN  /\ \A s \in DOMAIN P :
                      LeftWaiting(P, s) =>
                          /\ (FlipEventsOf(key, P[s].Trip) # {}) <=>
                                (\E j \in (s + 1)..Len(P) :
                                    FirstOtherTrip(P, s, j) /\ P[j].Stop_Name = end_stop)
                          /\ Cardinality(FlipEventsOf(key, P[s].Trip)) <= 1
                          /\ \A n \in FlipEventsOf(key, P[s].Trip) :
                                /\ loop_events[n].Start_Index = s
                                /\ FirstOtherTrip(P, s, loop_events[n].End_Index)
                                /\ loop_events[n].End_Trip = P[loop_events[n].End_Index].Trip
                /\ \A n \in EventsOf(key) :
                      loop_events[n].Trip_Flip =>
                          /\ loop_events[n].Start_Index \in DOMAIN P
                          /\ LeftWaiting(P, loop_events[n].Start_Index)
                          /\ P[loop_events[n].Start_Index].Trip = loop_events[n].Trip

\* the trip id changes twice before another trip reaches the end stop:
\* nothing is emitted
C16_Witness ==
    /\ Done
    /\ Len(api_data) = 4
    /\ LeftWaiting(api_data, 1)
    /\ api_data[2].Trip # api_data[1].Trip
    /\ api_data[2].Stop_Name \notin {start_stop, end_stop}
    /\ api_data[3].Trip = api_data[1].Trip
    /\ api_data[4].Trip # api_data[1].Trip
    /\ api_data[4].Stop_Name = end_stop
    /\ loop_events = <<>>

(***************************************************************************)
(* C17  Partition isolation.  Every event pairs a start-stop record and a  *)
(* later end-stop record of the rows that carry the event's own Vehicle,   *)
(* Block and Route, and the events of a partition are, but for their       *)
(* Loop_Count and Total_Miles, those the engine emits when it is given the *)
(* rows of that partition alone.                                           *)
(***************************************************************************)
RowsOfKey(vehicle, block, route) ==
    LET Mine(row) == row.Vehicle = vehicle /\ row.Block = block /\ row.Route = route
        mine == SelectSeq(api_data, Mine)
    IN  StableSort(mine, [n \in DOMAIN mine |-> <<mine[n].Timestamp>>])

Pairing(ev) ==
    [Vehicle |-> ev.Vehicle, Block |-> ev.Block, Route |-> ev.Route,
     Trip |-> ev.Trip, End_Trip |-> ev.End_Trip, Trip_Flip |-> ev.Trip_Flip,
     Loop_Completed_At |-> ev.Loop_Completed_At,
     Start_Index |-> ev.Start_Index, End_Index |-> ev.End_Index]

PairingsOf(events, vehicle, block, route) ==
    LET Mine(ev) == ev.Vehicle = vehicle /\ ev.Block = block /\ ev.Route = route
        mine == SelectSeq(events, Mine)
    IN  [n \in DOMAIN mine |-> Pairing(mine[n])]

C17_PartitionIsolation ==
    Done =>
        /\ \A n \in DOMAIN loop_events :
              LET ev == loop_events[n]
                  P  == RowsOfKey(ev.Vehicle, ev.Block, ev.Route)
              IN  /\ ev.Start_Index \in DOMAIN P /\ ev.End_Index \in DOMAIN P
                  /\ ev.Start_Index < ev.End_Index
                  /\ P[ev.Start_Index].Stop_Name = start_stop
                  /\ P[ev.Start_Index].Trip = ev.Trip
                  /\ P[ev.End_Index].Stop_Name = end_stop
                  /\ P[ev.End_Index].Trip = ev.End_Trip
                  /\ ev.Loop_Completed_At = TextOf(P[ev.End_Index].Timestamp)
        /\ \A r \in DOMAIN api_data :
              LET row == api_data[r]
              IN  PairingsOf(loop_events, row.Vehicle, row.Block, row.Route)
                    \in {PairingsOf(alone, row.Vehicle, row.Block, row.Route) :
                            alone \in RawLoopEvents(RowsOfKey(row.Vehicle, row.Block,
                                                             row.Route),
                                                   start_stop, end_stop)}

\* a loop is closed although an end-stop visit of another partition lies
\* between its start-stop and its end-stop visit
C17_Witness ==
    /\ Done
    /\ \E n \in DOMAIN loop_events : \E r \in DOMAIN api_data :
          LET ev == loop_events[n]
              P  == RowsOfKey(ev.Vehicle, ev.Block, ev.Route)
          IN  /\ <<api_data[r].Vehicle, api_data[r].Block, api_data[r].Route>>
                    # <<ev.Vehicle, ev.Block, ev.Route>>
              /\ api_data[r].Stop_Name = end_stop
              /\ P[ev.Start_Index].Timestamp < api_data[r].Timestamp
              /\ api_data[r].Timestamp < P[ev.End_Index].Timestamp

(***************************************************************************)
(* C18  No end-stop visit is counted twice.  No two events of a partition  *)
(* are closed by the same record.                                          *)
(***************************************************************************)
C18_NoEndVisitCountedTwice ==
    Done =>
        \A m \in DOMAIN loop_events : \A n \in DOMAIN loop_events :
            (m # n /\ EventKey(loop_events[m]) = EventKey(loop_events[n])) =>
                loop_events[m].End_Index # loop_events[n].End_Index

(***************************************************************************)
(* C19  Start precedes end.  Every event is closed by a record that lies   *)
(* strictly after, in the order in which the partition is scanned, the     *)
(* start-stop record that armed it, and its completion time is not earlier *)
(* than the time of that start-stop visit.                                 *)
(***************************************************************************)
C19_StartPrecedesEnd ==
    pc \in {"scan", "flip"} =>
        \A n \in EventsOf(groups[g]) :
            LET ev == loop_events[n]
                P  == group_sorted
            IN  /\ ev.Start_Index \in DOMAIN P /\ ev.End_Index \in DOMAIN P
                /\ ev.Start_Index < ev.End_Index
                /\ P[ev.Start_Index].Stop_Name = start_stop
                /\ P[ev.Start_Index].Trip = ev.Trip
                /\ P[ev.Start_Index].Timestamp <= CompletedAt(ev)
                /\ CompletedAt(ev) = P[ev.End_Index].Timestamp

\* the partition is scanned in another order than that of the batch, and
\* yields a trip-flip event and a normal event that is closed at the very
\* time of its start-stop visit
C19_Witness ==
    /\ pc = "flip"
    /\ k > Len(trip_loops)
    /\ group_sorted # df_sorted
    /\ \E n \in DOMAIN loop_events : loop_events[n].Trip_Flip
    /\ \E n \in DOMAIN loop_events :
          LET ev == loop_events[n]
          IN  /\ ~ev.Trip_Flip
              /\ group_sorted[ev.Start_Index].Timestamp = CompletedAt(ev)

\* the stepwise run returns one of the tables of get_loop_events
StepwiseAgrees ==
    Done => loop_events_df \in get_loop_events(df_filtered, start_stop, end_stop)

====
